---- MODULE Spec2Model ----
(***************************************************************************)
(* pyespn: schema-driven API gateway (api_gateway.py), its caller          *)
(* (league.py) and the code lookup table (codebook.py).                    *)
(*                                                                         *)
(* Python objects live in a heap: a sequence of cells, each a dict or a    *)
(* list.  A value is a scalar or a reference to a cell, so that two names  *)
(* bound to one dict (aliasing) and in-place writes are modelled as the    *)
(* interpreter performs them.                                              *)
(***************************************************************************)
EXTENDS Integers, Sequences, FiniteSets, TLC

\* ------------------------------------------------------------------ bounds
\* longest remap table drawn for _map_item
MaxEntries == 2
\* longest remap table drawn where entries chain through one another
MaxChain == 3

\* ------------------------------------------------------------------ values
Null == [k |-> "null", n |-> 0]
IntV(i) == [k |-> "int", n |-> i]
StrV(i) == [k |-> "str", n |-> i]
Ref(a) == [k |-> "ref", n |-> a]
\* the _MISSING sentinel of _map_item
MISSING == [k |-> "missing", n |-> 0]

DictCell(d) == [t |-> "dict", d |-> d, l |-> <<>>]
ListCell(l) == [t |-> "list", d |-> <<>>, l |-> l]
EmptyDict == DictCell(<<>>)

\* isinstance(v, dict) / isinstance(v, list)
IsDict(h, v) == v.k = "ref" /\ h[v.n].t = "dict"
IsList(h, v) == v.k = "ref" /\ h[v.n].t = "list"

\* d[key] = v on a dict's key/value function
Put(d, key, v) == (key :> v) @@ d

\* ------------------------------------------------------------ copy.deepcopy
ShiftVal(v, off) == IF v.k = "ref" THEN Ref(v.n + off) ELSE v

ShiftCell(c, off) ==
    [t |-> c.t,
     d |-> [x \in DOMAIN c.d |-> ShiftVal(c.d[x], off)],
     l |-> [i \in DOMAIN c.l |-> ShiftVal(c.l[i], off)]]

\* A structure-preserving copy of every cell, appended to the heap; the copy
\* of cell a is cell a + Len(h).
DeepCopyHeap(h) == h \o [i \in 1..Len(h) |-> ShiftCell(h[i], Len(h))]

DeepCopyVal(h, v) == ShiftVal(v, Len(h))

\* ------------------------------------------------------------ _get_by_path
RECURSIVE GetByPath(_, _, _)
GetByPath(h, cur, path) ==
    IF path = <<>> THEN cur
    ELSE IF ~IsDict(h, cur) \/ Head(path) \notin DOMAIN h[cur.n].d THEN MISSING
    ELSE GetByPath(h, h[cur.n].d[Head(path)], Tail(path))

\* ------------------------------------------------------------ _set_by_path
\* cur.get(seg): None when the key is absent
DictGet(h, a, seg) == IF seg \in DOMAIN h[a].d THEN h[a].d[seg] ELSE Null

SetLeaf(h, a, seg, value) == [h EXCEPT ![a].d = Put(@, seg, value)]

\* as _set_by_path, but every intermediate segment gets a new dict
RECURSIVE SetByPathClobber(_, _, _, _)
SetByPathClobber(h, a, path, value) ==
    IF Len(path) = 1 THEN SetLeaf(h, a, path[1], value)
    ELSE LET fresh == Len(h) + 1
             h1 == Append(SetLeaf(h, a, Head(path), Ref(fresh)), EmptyDict)
         IN  SetByPathClobber(h1, fresh, Tail(path), value)

RECURSIVE SetByPath(_, _, _, _)
SetByPath(h, a, path, value) ==
    IF Len(path) = 1 THEN SetLeaf(h, a, path[1], value)
    ELSE LET nxt == DictGet(h, a, Head(path))
         IN  IF ~IsDict(h, nxt)
             THEN LET fresh == Len(h) + 1
                      h1 == Append(SetLeaf(h, a, Head(path), Ref(fresh)), EmptyDict)
                  IN  SetByPath(h1, fresh, Tail(path), value)
             ELSE SetByPath(h, nxt.n, Tail(path), value)

\* --------------------------------------------------------- path.split(".")
\* A dotted string is the sequence of its tokens, a key or the separator ".";
\* a key is one token.  Split yields the segments, the empty string where two
\* separators meet or the string starts or ends with one.
RECURSIVE SplitFrom(_, _)
SplitFrom(s, cur) ==
    IF s = <<>> THEN <<cur>>
    ELSE IF Head(s) = "." THEN <<cur>> \o SplitFrom(Tail(s), "")
    ELSE SplitFrom(Tail(s), Head(s))

Split(s) == SplitFrom(s, "")

\* ".".join(segments), the dotted string of a path
RECURSIVE Dotted(_)
Dotted(p) ==
    IF Len(p) = 1 THEN <<p[1]>> ELSE <<Head(p), ".">> \o Dotted(Tail(p))

\* -------------------------------------------------------- _map_item_dotted
\* The loop body over mapping.items(), entry i onwards; mapping is the table
\* in insertion order, a sequence of <<src, dst>> dotted strings.
\* as the loop, but a source holding None is taken for a missing one
RECURSIVE MapLoopSkipNull(_, _, _, _, _)
MapLoopSkipNull(h, item, o, mapping, i) ==
    IF i > Len(mapping) THEN h
    ELSE LET val == GetByPath(h, item, Split(mapping[i][1]))
             h1 == IF val # MISSING /\ val # Null
                   THEN SetByPath(h, o.n, Split(mapping[i][2]), val) ELSE h
         IN  MapLoopSkipNull(h1, item, o, mapping, i + 1)

RECURSIVE MapLoop(_, _, _, _, _)
MapLoop(h, item, o, mapping, i) ==
    IF i > Len(mapping) THEN h
    ELSE LET val == GetByPath(h, item, Split(mapping[i][1]))
             h1 == IF val # MISSING
                   THEN SetByPath(h, o.n, Split(mapping[i][2]), val) ELSE h
         IN  MapLoop(h1, item, o, mapping, i + 1)

\* [heap, out]: the heap after the call and the returned dict
MapItemDotted(h, item, mapping) ==
    LET o == DeepCopyVal(h, item)
    IN  [heap |-> MapLoop(DeepCopyHeap(h), item, o, mapping, 1), out |-> o]

MapItem(h, item, mapping) == MapItemDotted(h, item, mapping)

\* ------------------------------------------------------------- observation
\* The JSON text of a value to a nesting depth: the set of <<path, leaf>>,
\* where a dict shows as a dict and not as its address.
Shape(h, v) == IF v.k = "ref" THEN [k |-> h[v.n].t, n |-> 0] ELSE v

RECURSIVE Flat(_, _, _)
Flat(h, v, depth) ==
    {<<<<>>, Shape(h, v)>>} \cup
    (IF IsDict(h, v) /\ depth > 0
     THEN UNION {{<<<<key>> \o e[1], e[2]>> : e \in Flat(h, h[v.n].d[key], depth - 1)} :
                 key \in DOMAIN h[v.n].d}
     ELSE {})

\* nesting depth to which two JSON values are compared
ViewDepth == 6

\* deep equality of value v in heap h and value w in heap g
SameJson(h, v, g, w) == Flat(h, v, ViewDepth) = Flat(g, w, ViewDepth)

\* p is a prefix of q (or equal)
IsPrefix(p, q) == Len(p) <= Len(q) /\ SubSeq(q, 1, Len(p)) = p
Comparable(p, q) == IsPrefix(p, q) \/ IsPrefix(q, p)

\* ------------------------------------------------------------------ inputs
KeySeq == <<"a", "b">>
Keys == {KeySeq[i] : i \in DOMAIN KeySeq}

\* dotted paths of one and of two segments
Paths == {<<k1>> : k1 \in Keys} \cup {<<k1, k2>> : k1 \in Keys, k2 \in Keys}
Entries == {<<Dotted(p), Dotted(q)>> : p \in Paths, q \in Paths}
\* remap tables of at most n entries: a dict, so no source appears twice
Tables(n) == UNION {{m \in [1..len -> Entries] :
                       \A i, j \in 1..len : i # j => m[i][1] # m[j][1]} : len \in 0..n}

\* Decoded JSON objects of nesting depth at most two: the root dict is cell 1;
\* key NestKey holds nothing, a scalar or the dict of cell 2, the other keys
\* nothing or a scalar.
NestKey == KeySeq[1]
ScalarKinds == {"absent", "null", "int"}
LeafKinds == {"absent", "int"}
Plans == {pl \in [root : [Keys -> ScalarKinds \cup {"dict"}], sub : [Keys -> LeafKinds]] :
            /\ \A key \in Keys \ {NestKey} : pl.root[key] # "dict"
            /\ pl.root[NestKey] # "dict" => \A k2 \in Keys : pl.sub[k2] = "absent"}

LeafOf(kind) == IF kind = "null" THEN Null ELSE IntV(1)

PlanHeap(pl) ==
    <<DictCell([key \in {x \in Keys : pl.root[x] # "absent"} |->
                 IF pl.root[key] = "dict" THEN Ref(2) ELSE LeafOf(pl.root[key])]),
      DictCell([k2 \in {x \in Keys : pl.sub[x] # "absent"} |-> LeafOf(pl.sub[k2])])>>

\* {"record": {"overall": {"pointsFor": 10}}} and the table
\* {"record.overall.pointsFor": "record.overall.points_for"}
ExampleHeap ==
    <<DictCell("record" :> Ref(2)), DictCell("overall" :> Ref(3)),
      DictCell("pointsFor" :> IntV(10))>>
ExampleTable ==
    <<<<Dotted(<<"record", "overall", "pointsFor">>),
        Dotted(<<"record", "overall", "points_for">>)>>>>


\* ------------------------------------------------------------ the gateway
\* Python's None where a name or a key is expected
NoneTok == "<None>"

\* MODEL_REGISTRY
MODEL_REGISTRY == {"Team", "Player", "MatchupHistorical", "RosterMoveResponse"}

\* str.upper() on the method names a schema uses
Upper(m) ==
    CASE m = "get" -> "GET"
      [] m = "post" -> "POST"
      [] OTHER -> m

\* APIGateway.__init__: the three registries built from the schema document
LoadSchema(doc) ==
    [bases |-> [name \in DOMAIN doc.bases |->
                  [name |-> name, url |-> doc.bases[name].url,
                   method |-> Upper(doc.bases[name].method)]],
     routes |-> [name \in DOMAIN doc.routes |->
                  [name |-> name, path |-> doc.routes[name].path,
                   base |-> doc.routes[name].base]],
     operations |-> [name \in DOMAIN doc.operations |->
                  [name |-> name,
                   route |-> doc.operations[name].route,
                   params |-> doc.operations[name].params,
                   model_name |-> doc.operations[name].model,
                   response_root |-> doc.operations[name].response_root,
                   response_form |-> doc.operations[name].response_form,
                   field_map |-> doc.operations[name].field_map]]]

NotLoaded == [bases |-> <<>>, routes |-> <<>>, operations |-> <<>>]

\* A lookup result: found, or the KeyError the lookup raises
Found(x) == [ok |-> TRUE, v |-> x, msg |-> <<>>]
KeyErr(msg) == [ok |-> FALSE, v |-> <<>>, msg |-> msg]

GetOperation(g, name) ==
    IF name \in DOMAIN g.operations THEN Found(g.operations[name])
    ELSE KeyErr(<<"Operation", name, "not defined in schema">>)

GetRoute(g, name) ==
    IF name \in DOMAIN g.routes THEN Found(g.routes[name])
    ELSE KeyErr(<<"Route", name, "not defined in schema">>)

GetBase(g, name) ==
    IF name \in DOMAIN g.bases THEN Found(g.bases[name])
    ELSE KeyErr(<<"Base", name, "not defined in schema">>)

\* as OperationSpec.model, but MODEL_REGISTRY.get(name)
OpModelLenient(op) ==
    IF op.model_name \in MODEL_REGISTRY THEN Found(op.model_name) ELSE Found(NoneTok)

\* OperationSpec.model: None, the registered class, or KeyError
OpModel(op) ==
    IF op.model_name = NoneTok THEN Found(NoneTok)
    ELSE IF op.model_name \in MODEL_REGISTRY THEN Found(op.model_name)
    ELSE KeyErr(<<"Model", op.model_name, "not in MODEL_REGISTRY">>)

\* A path template is its text and the placeholders in it, in order.
\* str.format(**path_params): KeyError on the first placeholder without a
\* value; arguments the template does not name are ignored.
MissingHoles(tpl, path_params) ==
    {i \in DOMAIN tpl.holes : tpl.holes[i] \notin DOMAIN path_params}

FormatUrl(base_url, tpl, path_params) ==
    IF MissingHoles(tpl, path_params) # {}
    THEN KeyErr(<<"Missing path parameter",
                  tpl.holes[CHOOSE i \in MissingHoles(tpl, path_params) :
                              \A j \in MissingHoles(tpl, path_params) : i <= j]>>)
    ELSE Found([base |-> base_url, path |-> tpl.text,
                args |-> [i \in DOMAIN tpl.holes |-> path_params[tpl.holes[i]]]])

\* ---------------------------------------------------- pydantic validation
\* The required fields of a registered model and the JSON kind of each
\* (models.py); fields with a default and extra keys do not decide validity
\* for the objects drawn here.
RequiredFields(model) ==
    CASE model = "Team" -> [id |-> "int", abbrev |-> "str", name |-> "str"]
      [] model = "Player" -> [id |-> "int", firstName |-> "str", lastName |-> "str",
                              defaultPositionId |-> "int", proTeamId |-> "int"]
      [] model = "MatchupHistorical" -> [id |-> "int", matchupPeriodId |-> "int"]
      [] OTHER -> <<>>

\* model_cls.model_validate(v): the model instance (its declared fields) or
\* a ValidationError
ModelValidate(model, h, v) ==
    LET req == RequiredFields(model)
    IN  IF IsDict(h, v)
           /\ \A f \in DOMAIN req : f \in DOMAIN h[v.n].d /\ h[v.n].d[f].k = req[f]
        THEN [ok |-> TRUE, obj |-> [f \in DOMAIN req |-> h[v.n].d[f]]]
        ELSE [ok |-> FALSE, obj |-> <<>>]

\* ------------------------------------------------------ APIGateway.request
NoCall == [method |-> "", url |-> [base |-> "", path |-> "", args |-> <<>>],
           params |-> <<>>, data |-> <<>>]
NoValue == [kind |-> "none", raw |-> Null, objs |-> <<>>]

\* the record of one invocation: what was asked, what went out, what came back
Invocation(operation, path_args, query_args, resp) ==
    [done |-> TRUE, operation |-> operation, path_args |-> path_args,
     query_args |-> query_args, resp |-> resp,
     sent |-> FALSE, call |-> NoCall, outcome |-> "raised", error |-> "", msg |-> <<>>,
     data |-> Null, value |-> NoValue, heap |-> resp.heap]

Raise(inv, error, msg) == [inv EXCEPT !.outcome = "raised", !.error = error, !.msg = msg]
Return(inv, value, h) == [inv EXCEPT !.outcome = "returned", !.value = value, !.heap = h]

\* as the comprehension, but filtering on isinstance(x, dict)
RECURSIVE MapListDropScalars(_, _, _, _, _)
MapListDropScalars(h, xs, field_map, i, acc) ==
    IF i > Len(xs) THEN [heap |-> h, mapped |-> acc]
    ELSE IF IsDict(h, xs[i])
         THEN LET r == MapItem(h, xs[i], field_map)
              IN  MapListDropScalars(r.heap, xs, field_map, i + 1, Append(acc, r.out))
         ELSE MapListDropScalars(h, xs, field_map, i + 1, acc)

\* [self._map_item(x, field_map) if isinstance(x, dict) else x for x in data]
\* from element i on: [heap, mapped]
RECURSIVE MapList(_, _, _, _, _)
MapList(h, xs, field_map, i, acc) ==
    IF i > Len(xs) THEN [heap |-> h, mapped |-> acc]
    ELSE IF IsDict(h, xs[i])
         THEN LET r == MapItem(h, xs[i], field_map)
              IN  MapList(r.heap, xs, field_map, i + 1, Append(acc, r.out))
         ELSE MapList(h, xs, field_map, i + 1, Append(acc, xs[i]))

\* as the extraction, but response_root is never looked at
ExtractRootWhole(op, h, resp) == [ok |-> TRUE, attr |-> TRUE, data |-> resp]

\* data = resp.get(op.response_root, None) when a response_root is set:
\* attr is FALSE when resp has no get, ok is FALSE when data is None
ExtractRoot(op, h, resp) ==
    IF op.response_root \in {NoneTok, ""} THEN [ok |-> TRUE, attr |-> TRUE, data |-> resp]
    ELSE IF ~IsDict(h, resp) THEN [ok |-> FALSE, attr |-> FALSE, data |-> Null]
    ELSE LET data == DictGet(h, resp.n, op.response_root)
         IN  [ok |-> data # Null, attr |-> TRUE, data |-> data]

\* the lines after the model class is known: root extraction, remap and
\* validation
Convert(inv, op, model_cls, h, resp) ==
    LET ex == ExtractRoot(op, h, resp)
        data == ex.data
        withData == [inv EXCEPT !.data = data]
    IN  IF ~ex.attr THEN Raise(inv, "AttributeError", <<"get">>)
        ELSE IF ~ex.ok THEN Raise(inv, "KeyError", <<"Key", op.response_root, "not found in", op.name>>)
        ELSE IF op.response_form = "dict" /\ IsDict(h, data)
        THEN LET r == MapItem(h, data, op.field_map)
                 v == ModelValidate(model_cls, r.heap, r.out)
             IN  IF v.ok
                 THEN Return(withData, [kind |-> "object", raw |-> Null, objs |-> <<v.obj>>], r.heap)
                 ELSE Raise(withData, "ValidationError", <<>>)
        ELSE IF op.response_form = "list" /\ IsList(h, data)
        THEN LET r == MapList(h, h[data.n].l, op.field_map, 1, <<>>)
                 vs == [i \in DOMAIN r.mapped |-> ModelValidate(model_cls, r.heap, r.mapped[i])]
             IN  IF \A i \in DOMAIN vs : vs[i].ok
                 THEN Return(withData, [kind |-> "list", raw |-> Null,
                                         objs |-> [i \in DOMAIN vs |-> vs[i].obj]], r.heap)
                 ELSE Raise(withData, "ValidationError", <<>>)
        ELSE Return(withData, [kind |-> "raw", raw |-> resp, objs |-> <<>>], h)

\* payload or {}
PayloadOrEmpty(payload) == IF payload.none THEN <<>> ELSE payload.d

\* request(operation, path_args, payload) on gateway g with the server
\* answering resp.  The method has no query_args parameter: a call that
\* passes one is rejected with TypeError before the body runs.
Request(g, operation, path_args, payload, query_args, resp) ==
    LET inv == Invocation(operation, path_args, query_args, resp)
        op == GetOperation(g, operation)
        route == GetRoute(g, op.v.route)
        base == GetBase(g, route.v.base)
        url == FormatUrl(base.v.url, route.v.path, path_args)
        sent == [inv EXCEPT !.sent = TRUE,
                            !.call = [method |-> base.v.method, url |-> url.v,
                                      params |-> op.v.params,
                                      data |-> PayloadOrEmpty(payload)]]
        model_cls == OpModel(op.v)
    IN  IF query_args.passed THEN Raise(inv, "TypeError", <<"query_args">>)
        ELSE IF ~op.ok THEN Raise(inv, "KeyError", op.msg)
        ELSE IF ~route.ok THEN Raise(inv, "KeyError", route.msg)
        ELSE IF ~base.ok THEN Raise(inv, "KeyError", base.msg)
        ELSE IF ~url.ok THEN Raise(inv, "KeyError", url.msg)
        ELSE IF resp.status # "2xx" THEN Raise(sent, "HTTPStatusError", <<>>)
        ELSE IF ~resp.json THEN Raise(sent, "JSONDecodeError", <<>>)
        ELSE IF ~model_cls.ok THEN Raise(sent, "KeyError", model_cls.msg)
        ELSE IF model_cls.v = NoneTok
        THEN Return(sent, [kind |-> "raw", raw |-> resp.root, objs |-> <<>>], resp.heap)
        ELSE Convert(sent, op.v, model_cls.v, resp.heap, resp.root)


\* ------------------------------------------------------ gateway inputs
\* longest JSON array a response carries
MaxLen == 2

T0 == [text |-> "/status", holes |-> <<>>]
T2 == [text |-> "/seasons/{season}/leagues/{league_id}", holes |-> <<"season", "league_id">>]

BaseDocs == {<<>>, "fantasy" :> [url |-> "https://fantasy.example", method |-> "get"]}
RouteDocs == {<<>>} \cup {"league" :> [path |-> t, base |-> "fantasy"] : t \in {T0, T2}}
ParamDocs == {<<>>, "view" :> "mTeam"}
FieldMapDocs == {<<>>, <<<<Dotted(<<"nick">>), Dotted(<<"name">>)>>>>}
OperationDoc ==
    [route : {"league"}, params : ParamDocs, model : {NoneTok, "Team", "Nope"},
     response_root : {NoneTok, "teams"}, response_form : {"dict", "list"},
     field_map : FieldMapDocs]
\* the operations League asks for, one or both declared
OperationDocs ==
    {[name \in names |-> od] :
        names \in {{"league_teams"}, {"league_teams", "league_teams_historical"}},
        od \in OperationDoc}

\* schema.yaml documents
Schemas == [bases : BaseDocs, routes : RouteDocs, operations : OperationDocs]

Seasons == {2020, 2026}
LeagueId == 572240
PathArgs(season) == ("season" :> season) @@ ("league_id" :> LeagueId)

\* payload=None
NoPayload == [none |-> TRUE, d |-> <<>>]
NotPassed == [passed |-> FALSE, d |-> <<>>]
Passed(d) == [passed |-> TRUE, d |-> d]

\* elements a response array or object slot can hold: team objects and a bare
\* number
TeamObjs ==
    { ("id" :> IntV(1)) @@ ("abbrev" :> StrV(1)) @@ ("name" :> StrV(1)),
      ("id" :> IntV(2)) @@ ("abbrev" :> StrV(2)) @@ ("nick" :> StrV(2)),
      ("abbrev" :> StrV(1)) @@ ("name" :> StrV(2)) @@ ("nick" :> StrV(1)) }
Elems == {[isd |-> TRUE, d |-> d, v |-> Null] : d \in TeamObjs}
         \cup {[isd |-> FALSE, d |-> <<>>, v |-> IntV(7)]}

\* [heap, root] of a decoded array of elements, of one element, of null
ListJson(es) ==
    [heap |-> <<ListCell([i \in DOMAIN es |-> IF es[i].isd THEN Ref(1 + i) ELSE es[i].v])>>
              \o [i \in DOMAIN es |-> DictCell(es[i].d)],
     root |-> Ref(1)]
ElemJson(e) ==
    IF e.isd THEN [heap |-> <<DictCell(e.d)>>, root |-> Ref(1)]
    ELSE [heap |-> <<>>, root |-> e.v]
\* {"teams": j}
Wrapped(j) ==
    [heap |-> Append(j.heap, DictCell("teams" :> j.root)), root |-> Ref(Len(j.heap) + 1)]

Payloads ==
    {ListJson(es) : es \in UNION {[1..n -> Elems] : n \in 0..MaxLen}}
    \cup {ElemJson(e) : e \in Elems}
    \cup {[heap |-> <<>>, root |-> Null]}

Bodies == Payloads \cup {Wrapped(j) : j \in Payloads}

Responses ==
    {[status |-> "2xx", json |-> TRUE, heap |-> j.heap, root |-> j.root] : j \in Bodies}
    \cup {[status |-> "2xx", json |-> FALSE, heap |-> <<>>, root |-> Null],
          [status |-> "500", json |-> TRUE, heap |-> <<>>, root |-> Null]}

NoResponse == [status |-> "", json |-> FALSE, heap |-> <<>>, root |-> Null]
Idle == [Invocation("", <<>>, NotPassed, NoResponse) EXCEPT !.done = FALSE, !.outcome = "none"]


\* ------------------------------------------------------------- codebook.py
\* Position / ProTeam
Record(id, abbr, name) == [id |-> id, abbr |-> abbr, name |-> name]

\* Codebook.__init__
NewCodebook(positions_by_id, pro_teams_by_id) ==
    [set |-> TRUE,
     positions_by_id |-> positions_by_id,
     pro_teams_by_id |-> pro_teams_by_id,
     pos_unk |-> Record(-1, "Unk", "Unknown"),
     team_unk |-> Record(-1, "Unk", "Unknown")]

\* Codebook.load: one record per id of each section of codebook.yaml
CodebookLoad(data) ==
    NewCodebook([id \in DOMAIN data.positions |->
                   Record(id, data.positions[id].abbr, data.positions[id].name)],
                [id \in DOMAIN data.pro_teams |->
                   Record(id, data.pro_teams[id].abbr, data.pro_teams[id].name)])

\* as dict.get, but the key is never found
GetOrSentinel(table, id, default) == default

\* dict.get(key, default)
GetOr(table, id, default) == IF id \in DOMAIN table THEN table[id] ELSE default

\* Codebook.position / Codebook.pro_team
Position(c, id) == GetOr(c.positions_by_id, id, c.pos_unk)
ProTeam(c, id) == GetOr(c.pro_teams_by_id, id, c.team_unk)

\* _CB = None
NoCodebook == [set |-> FALSE, positions_by_id |-> <<>>, pro_teams_by_id |-> <<>>,
               pos_unk |-> Record(0, "", ""), team_unk |-> Record(0, "", "")]

\* codebook(): the singleton after the call
Codebook(c, data) == IF ~c.set THEN CodebookLoad(data) ELSE c

\* codebook.yaml documents: each section maps some ids to {abbr, name}
Codes == {-1, 0, 1, 2}
Metas == {[abbr |-> "QB", name |-> "Quarterback"], [abbr |-> "Unk", name |-> "Unknown"]}
Sections == UNION {[ids -> Metas] : ids \in SUBSET {-1, 1, 2}}
Yamls == [positions : Sections, pro_teams : {sec \in Sections : DOMAIN sec \subseteq {1}}]

NoYaml == [positions |-> <<>>, pro_teams |-> <<>>]
NoLookup == [done |-> FALSE, kind |-> "", id |-> 0, result |-> Record(0, "", "")]

VARIABLES
    \* one _map_item call: the heap before, the argument, the table, the heap
    \* after, the returned dict, the position
    heap0, item, mapping, heap, out, pc,
    \* the gateway: schema.yaml, the registries of the constructed gateway,
    \* whether it is constructed, the last invocation of request
    schema, gw, loaded, last,
    \* the code table: codebook.yaml, the _CB singleton, the last lookup
    yaml, cb, lookup

mapVars == <<heap0, item, mapping, heap, out, pc>>
gwVars == <<schema, gw, loaded, last>>
cbVars == <<yaml, cb, lookup>>
vars == <<mapVars, gwVars, cbVars>>

CbIdle == yaml = NoYaml /\ cb = NoCodebook /\ lookup = NoLookup

MapIdle ==
    /\ heap0 = <<>> /\ item = Null /\ mapping = <<>> /\ heap = <<>> /\ out = Null
    /\ pc = "idle"

GwIdle ==
    /\ schema = [bases |-> <<>>, routes |-> <<>>, operations |-> <<>>]
    /\ gw = NotLoaded /\ loaded = FALSE /\ last = Idle

\* ---------------------------------------------------------------- gateway
Init ==
    /\ schema \in Schemas
    /\ gw = NotLoaded
    /\ loaded = FALSE
    /\ last = Idle
    /\ MapIdle /\ CbIdle

\* APIGateway() (also League.__init__)
Load ==
    /\ ~loaded
    /\ gw' = LoadSchema(schema)
    /\ loaded' = TRUE
    /\ UNCHANGED <<schema, last, mapVars, cbVars>>

\* gw.request(operation, path_args[, query_args=...]).  The gateway keeps
\* nothing from one invocation to the next, so a behaviour holds one.
DoRequest ==
    /\ loaded /\ ~last.done
    /\ \E operation \in {"league_teams", "league_teams_historical"},
          path_args \in {<<>>} \cup {PathArgs(s) : s \in Seasons},
          query_args \in {NotPassed, Passed("seasonId" :> "2020"), Passed("view" :> "mRoster")},
          resp \in Responses :
          last' = Request(gw, operation, path_args, NoPayload, query_args, resp)
    /\ UNCHANGED <<schema, gw, loaded, mapVars, cbVars>>

\* League(season, league_id).get_teams() in the year current_year
GetTeams ==
    /\ loaded /\ ~last.done
    /\ \E season \in Seasons, current_year \in Seasons, resp \in Responses :
          last' = IF season < current_year
                  THEN Request(gw, "league_teams_historical", PathArgs(season),
                               NoPayload, Passed("seasonId" :> "2020"), resp)
                  ELSE Request(gw, "league_teams", PathArgs(season), NoPayload,
                               NotPassed, resp)
    /\ UNCHANGED <<schema, gw, loaded, mapVars, cbVars>>

Next == Load \/ DoRequest \/ GetTeams

Spec == Init /\ [][Next]_vars

\* --------------------------------------------------------------- codebook
CbInit ==
    /\ yaml \in Yamls
    /\ cb = NoCodebook
    /\ lookup = NoLookup
    /\ MapIdle /\ GwIdle

\* codebook().position(id_): Player.default_position, eligible_positions
LookupPosition ==
    /\ \E id \in Codes :
         LET c == Codebook(cb, yaml)
         IN  /\ cb' = c
             /\ lookup' = [done |-> TRUE, kind |-> "position", id |-> id,
                           result |-> Position(c, id)]
    /\ UNCHANGED <<yaml, mapVars, gwVars>>

\* codebook().pro_team(id_): Player.pro_team
LookupProTeam ==
    /\ \E id \in Codes :
         LET c == Codebook(cb, yaml)
         IN  /\ cb' = c
             /\ lookup' = [done |-> TRUE, kind |-> "pro_team", id |-> id,
                           result |-> ProTeam(c, id)]
    /\ UNCHANGED <<yaml, mapVars, gwVars>>

CbNext == LookupPosition \/ LookupProTeam

SpecCodebook == CbInit /\ [][CbNext]_vars

\* ------------------------------------------------------------- _map_item
MapInputs(n) ==
    /\ \/ (\E pl \in Plans : heap0 = PlanHeap(pl)) /\ mapping \in Tables(n)
       \/ heap0 = ExampleHeap /\ mapping = ExampleTable
    /\ item = Ref(1)
    /\ heap = heap0
    /\ out = Null
    /\ pc = "start"

MapInit == GwIdle /\ CbIdle /\ MapInputs(MaxEntries)

\* one call _map_item(item, mapping)
CallMapItem ==
    /\ pc = "start"
    /\ LET r == MapItem(heap0, item, mapping)
       IN  heap' = r.heap /\ out' = r.out
    /\ pc' = "done"
    /\ UNCHANGED <<heap0, item, mapping, gwVars, cbVars>>

MapNext == CallMapItem

SpecMap == MapInit /\ [][MapNext]_vars

\* the same call on the longer tables
ChainInit == GwIdle /\ CbIdle /\ MapInputs(MaxChain)

SpecMapChain == ChainInit /\ [][MapNext]_vars

\* ------------------------------------------------- claims on the gateway
TheOp == gw.operations[last.operation]
OpDeclared == last.operation \in DOMAIN gw.operations
RouteDeclared == OpDeclared /\ TheOp.route \in DOMAIN gw.routes
BaseDeclared == RouteDeclared /\ gw.routes[TheOp.route].base \in DOMAIN gw.bases
HolesSupplied ==
    BaseDeclared /\ MissingHoles(gw.routes[TheOp.route].path, last.path_args) = {}
ModelDangling ==
    OpDeclared /\ TheOp.model_name # NoneTok /\ TheOp.model_name \notin MODEL_REGISTRY
\* the server answered 2xx with a JSON body
Decoded == last.sent /\ last.resp.status = "2xx" /\ last.resp.json
\* dict | overrides
Merge(defaults, overrides) == overrides @@ defaults

\* C1 as stated: every invocation whose names resolve sends the operation's
\* default params merged with the caller's overrides, the override winning
C1_MergedParamsSent ==
    (last.done /\ HolesSupplied) =>
        /\ last.sent
        /\ last.call.params = Merge(TheOp.params, last.query_args.d)

\* a schema document with a reference to nothing
DanglingSchema(doc) ==
    \/ \E o \in DOMAIN doc.operations :
         \/ doc.operations[o].route \notin DOMAIN doc.routes
         \/ doc.operations[o].model \notin MODEL_REGISTRY \cup {NoneTok}
    \/ \E r \in DOMAIN doc.routes : doc.routes[r].base \notin DOMAIN doc.bases

\* C2 as stated: no gateway is constructed from a schema with a dangling
\* route, model or base reference
C2_LoadRejectsDangling == loaded => ~DanglingSchema(schema)

\* C2 amended: construction does not check references; an invocation of an
\* operation whose route, base or model reference dangles raises an error and
\* returns no value
C2_DanglingFailsAtRequest ==
    (last.done /\ OpDeclared /\ (~RouteDeclared \/ ~BaseDeclared \/ ModelDangling)) =>
        /\ last.outcome = "raised"
        /\ last.value = NoValue
        /\ (~last.query_args.passed => last.error \in {"KeyError", "HTTPStatusError",
                                                      "JSONDecodeError"})

C2_Witness ==
    /\ loaded /\ DanglingSchema(schema)
    /\ last.done /\ ModelDangling /\ Decoded
    /\ last.outcome = "raised" /\ last.error = "KeyError"
    /\ last.msg = <<"Model", TheOp.model_name, "not in MODEL_REGISTRY">>

RootDeclared == OpDeclared /\ TheOp.response_root # NoneTok
BodyIsObject == IsDict(last.resp.heap, last.resp.root)
RootPresent == BodyIsObject /\ TheOp.response_root \in DOMAIN last.resp.heap[last.resp.root.n].d
RootValue == last.resp.heap[last.resp.root.n].d[TheOp.response_root]
MissingKeyRaised ==
    /\ last.outcome = "raised" /\ last.error = "KeyError" /\ last.value = NoValue
    /\ last.msg = <<"Key", TheOp.response_root, "not found in", TheOp.name>>

\* C3 as stated: with a response_root declared, model or no model, an absent
\* key raises the missing-key error naming operation and key, and a present
\* key makes its value the data that is converted
C3_RootExtracted ==
    (last.done /\ Decoded /\ RootDeclared /\ BodyIsObject) =>
        IF RootPresent THEN last.data = RootValue /\ ~MissingKeyRaised
        ELSE MissingKeyRaised

\* the object under the key, remapped and validated on its own
RootConverted ==
    LET r == MapItem(last.resp.heap, RootValue, TheOp.field_map)
        v == ModelValidate(TheOp.model_name, r.heap, r.out)
    IN  IF v.ok THEN last.outcome = "returned" /\ last.value.kind = "object"
                     /\ last.value.objs = <<v.obj>>
        ELSE last.outcome = "raised" /\ last.error = "ValidationError"

\* C3 amended: the same for operations that declare a registered model and
\* get a JSON object as body, a null under the key counting as absent
C3_RootExtractedWithModel ==
    (last.done /\ Decoded /\ RootDeclared /\ TheOp.model_name \in MODEL_REGISTRY
       /\ BodyIsObject) =>
        IF RootPresent /\ RootValue # Null
        THEN /\ last.data = RootValue /\ ~MissingKeyRaised
             /\ (TheOp.response_form = "dict" /\ IsDict(last.resp.heap, RootValue))
                  => RootConverted
        ELSE MissingKeyRaised

C3_Witness ==
    /\ last.done /\ Decoded /\ RootDeclared /\ TheOp.model_name = "Team"
    /\ BodyIsObject /\ ~RootPresent /\ MissingKeyRaised

\* the array the conversion starts from: the body or its response_root subtree
InputArray == IF RootDeclared THEN RootValue ELSE last.resp.root
InputElems == last.resp.heap[InputArray.n].l
\* one element remapped and validated on its own
ValidatedAlone(x) ==
    IF IsDict(last.resp.heap, x)
    THEN LET r == MapItem(last.resp.heap, x, TheOp.field_map)
         IN  ModelValidate(TheOp.model_name, r.heap, r.out)
    ELSE ModelValidate(TheOp.model_name, last.resp.heap, x)

\* C7: a returned sequence of validated objects has the length of the input
\* array and its i-th element is the i-th input element remapped and validated
C7_ListOrderAndLength ==
    (last.done /\ OpDeclared /\ TheOp.response_form = "list"
       /\ TheOp.model_name \in MODEL_REGISTRY
       /\ last.outcome = "returned" /\ last.value.kind = "list") =>
        /\ (RootDeclared => RootPresent)
        /\ IsList(last.resp.heap, InputArray)
        /\ Len(last.value.objs) = Len(InputElems)
        /\ \A i \in DOMAIN InputElems :
             /\ ValidatedAlone(InputElems[i]).ok
             /\ last.value.objs[i] = ValidatedAlone(InputElems[i]).obj

C7_Witness ==
    /\ last.done /\ OpDeclared /\ TheOp.response_form = "list"
    /\ TheOp.field_map # <<>> /\ RootDeclared
    /\ last.outcome = "returned" /\ last.value.kind = "list"
    /\ Len(last.value.objs) = MaxLen
    /\ last.value.objs[1] # last.value.objs[MaxLen]

\* C9 as stated: an invocation with an unresolved operation, route, base or
\* model name, or a placeholder without a value, raises before any HTTP
\* request goes out
C9_FailFast ==
    (last.done /\ (~HolesSupplied \/ ModelDangling)) =>
        last.outcome = "raised" /\ ~last.sent

\* ------------------------------------------------ claims on the code table
YamlSection == IF lookup.kind = "position" THEN yaml.positions ELSE yaml.pro_teams
Unknown == Record(-1, "Unk", "Unknown")

\* C8: a lookup of a code in the table returns that code's record, a lookup
\* of any other code returns the unknown record, and no lookup changes a
\* populated table
C8_LookupTotal ==
    /\ [](lookup.done =>
            /\ cb.set
            /\ lookup.result =
                 IF lookup.id \in DOMAIN YamlSection
                 THEN Record(lookup.id, YamlSection[lookup.id].abbr,
                             YamlSection[lookup.id].name)
                 ELSE Unknown)
    /\ [][cb.set => cb' = cb]_vars

C8_Witness ==
    /\ lookup.done /\ lookup.id \notin DOMAIN YamlSection /\ DOMAIN YamlSection # {}
    /\ lookup.result = Unknown

\* ------------------------------------------------------ claims on _map_item
Src(i) == Split(mapping[i][1])
Dst(i) == Split(mapping[i][2])
\* the value entry i's source path has in the object as passed in
SrcValue(i) == GetByPath(heap0, item, Src(i))
Resolves(i) == SrcValue(i) # MISSING
InputAt(p) == GetByPath(heap0, item, p)
OutputAt(p) == GetByPath(heap, out, p)
\* every key path of the input, at every nesting level
InputPaths == {e[1] : e \in Flat(heap0, item, ViewDepth)} \ {<<>>}

Copied(i) ==
    /\ SameJson(heap, OutputAt(Dst(i)), heap0, SrcValue(i))
    /\ SameJson(heap, OutputAt(Src(i)), heap0, SrcValue(i))

\* C5 as stated: every entry whose source resolves leaves the source value at
\* its destination path and the source key with its value
C5_ResolvedCopied ==
    pc = "done" => \A i \in DOMAIN mapping : Resolves(i) => Copied(i)

\* no destination of the table is a prefix of, or equal to, another
DestinationsApart ==
    \A i, j \in DOMAIN mapping : i # j => ~Comparable(Dst(i), Dst(j))
\* no destination of the table is a prefix or an extension of entry i's source
SourceClear(i) == \A j \in DOMAIN mapping : ~Comparable(Dst(j), Src(i))

\* C5 amended: the same for tables whose destinations are pairwise apart, for
\* each entry whose source no destination runs into
C5_ResolvedCopiedWhenApart ==
    (pc = "done" /\ DestinationsApart) =>
        \A i \in DOMAIN mapping : (Resolves(i) /\ SourceClear(i)) => Copied(i)

\* two entries copied, both under an intermediate dict made for them
C5_Witness ==
    /\ pc = "done" /\ DestinationsApart /\ Len(mapping) = 2
    /\ \A i \in DOMAIN mapping :
         /\ Resolves(i) /\ SourceClear(i)
         /\ Len(Dst(i)) = 2 /\ InputAt(<<Dst(i)[1]>>) = MISSING
         /\ IsDict(heap, OutputAt(<<Dst(i)[1]>>))
         /\ OutputAt(Dst(i)) = SrcValue(i)

\* C6 as stated: an entry whose source does not resolve in the object as
\* passed in writes nothing, so a destination only it names is not created,
\* and a table none of whose sources resolve returns the input as it was
C6_UnresolvedSkipped ==
    pc = "done" =>
        /\ \A i \in DOMAIN mapping :
             (/\ ~Resolves(i)
              /\ InputAt(Dst(i)) = MISSING
              /\ \A j \in DOMAIN mapping : Resolves(j) => ~Comparable(Dst(i), Dst(j)))
             => OutputAt(Dst(i)) = MISSING
        /\ (\A i \in DOMAIN mapping : ~Resolves(i)) => SameJson(heap, out, heap0, item)

\* C10 as stated: the input object is deep-equal before and after the call
C10_InputUnchanged == pc = "done" => SameJson(heap, item, heap0, item)

====
